---- MODULE Spec2Model ----
(***************************************************************************)
(* A model of the vb64 base64 codec: the vector kernels of src/simd.rs,    *)
(* the padded gather and the length arithmetic of src/lib.rs, and the two  *)
(* chunk drivers decode_tunable / encode_tunable of src/lib.rs, stepped    *)
(* one window at a time.                                                   *)
(*                                                                         *)
(* Conventions.  A byte is a number in 0..255.  A slice or a buffer is a   *)
(* sequence of bytes; the byte at offset k of the code is element k+1.     *)
(* A Simd<u8, N> vector is a function on the lanes 0..N-1, as in the code. *)
(* Cursors (start, end, raw_out) are offsets from the base of their        *)
(* buffer.  Scalars wider than a byte (u32, u64, u128) are little-endian   *)
(* byte sequences, because the code only ever shifts them by whole bytes.  *)
(***************************************************************************)
EXTENDS Integers, Sequences, FiniteSets, TLC

\* ---------------------------------------------------------------- bytes

Lanes(N) == 0 .. (N - 1)

RECURSIVE BitAnd(_, _)
BitAnd(x, y) ==
  IF x = 0 \/ y = 0 THEN 0
  ELSE (x % 2) * (y % 2) + 2 * BitAnd(x \div 2, y \div 2)

RECURSIVE BitOr(_, _)
BitOr(x, y) ==
  IF x = 0 THEN y
  ELSE IF y = 0 THEN x
  ELSE (IF x % 2 = 1 \/ y % 2 = 1 THEN 1 ELSE 0) + 2 * BitOr(x \div 2, y \div 2)

\* !mask on a u8
BitNot8(x) == 255 - x

\* u8 wrapping add and sub, u8 saturating sub
WrapAdd(x, y) == (x + y) % 256
WrapSub(x, y) == (x - y + 256) % 256
SatSub(x, y) == IF x >= y THEN x - y ELSE 0

\* ------------------------------------------------------- macro helpers

\* simd!(N; |i| table[i % len]) : a vector tiling a small table
Tile(N, table) == [i \in Lanes(N) |-> table[(i % Len(table)) + 1]]

\* Simd::swizzle_dyn : out-of-range indices select 0
swizzle_dyn(N, table, indices) ==
  [i \in Lanes(N) |->
     LET k == indices[i] IN IF k < N THEN table[k] ELSE 0]

\* resize : truncate, or pad with zeroes
resize(N, M, v) == [i \in Lanes(M) |-> IF i < N THEN v[i] ELSE 0]

\* swizzle as it would be if it always took the truncating branch
swizzle_Truncating(N, M, table, indices) ==
  resize(N, M, swizzle_dyn(N, table, resize(M, N, indices)))

\* swizzle::<N, M>(table, indices)
swizzle(N, M, table, indices) ==
  IF N < M
    THEN swizzle_dyn(M, resize(N, M, table), indices)
    ELSE resize(N, M, swizzle_dyn(N, table, resize(M, N, indices)))

\* array!(N; |i| i + i / 3)
CompactIndex(N) == [i \in Lanes(N) |-> i + (i \div 3)]

\* invert_index(array) : out = [N; N], then out[array[i]] = i for each i in
\* turn with array[i] < N
RECURSIVE invert_loop(_, _, _, _)
invert_loop(N, array, out, i) ==
  IF i >= N THEN out
  ELSE invert_loop(N, array,
                   IF array[i] < N THEN [out EXCEPT ![array[i]] = i] ELSE out,
                   i + 1)

invert_index(N, array) == invert_loop(N, array, [j \in Lanes(N) |-> N], 0)

\* the const INDEX tables of swizzle!, one per instantiation of the kernels
ExpandIndex16 == invert_index(16, CompactIndex(16))

ExpandIndex32 == invert_index(32, CompactIndex(32))

ExpandIndex(N) ==
  IF N = 16 THEN ExpandIndex16
  ELSE IF N = 32 THEN ExpandIndex32
  ELSE invert_index(N, CompactIndex(N))

\* swizzle!(N; x, index) : a static shuffle, indices >= N select 0
static_swizzle(N, x, index) ==
  [i \in Lanes(N) |-> IF index[i] >= N THEN 0 ELSE x[index[i]]]

\* ------------------------------------------------------- simd::decode

DecodeOffsets == <<255, 16, 19, 4, 191, 191, 185, 185>>

LO_LUT == <<21, 17, 17, 17, 17, 17, 17, 17, 17, 17, 19, 26, 27, 27, 27, 26>>

\* HI_LUT as it would be if the rows of the bytes 0x80..0xff were left zero
HI_LUT_HighRowsZero == <<16, 16, 1, 2, 4, 8, 4, 8, 0, 0, 0, 0, 0, 0, 0, 0>>

HI_LUT == <<16, 16, 1, 2, 4, 8, 4, 8, 16, 16, 16, 16, 16, 16, 16, 16>>

Shifts == <<2, 4, 6, 8>>

Slash == 47

\* hashes = (ascii >> 4) + (ascii == '/').to_int().cast::<u8>()
DecodeHashes(N, ascii) ==
  [i \in Lanes(N) |->
     LET c == ascii[i] IN WrapAdd(c \div 16, IF c = Slash THEN 255 ELSE 0)]

DecodeSextets(N, ascii) ==
  LET offs == swizzle_dyn(N, Tile(N, DecodeOffsets), DecodeHashes(N, ascii))
  IN  [i \in Lanes(N) |-> WrapAdd(ascii[i], offs[i])]

\* valid = (lo & hi).reduce_or() == 0
DecodeValid(N, ascii) ==
  LET lut(t) == [i \in Lanes(16) |-> t[i + 1]]
      lo == swizzle(16, N, lut(LO_LUT), [i \in Lanes(N) |-> ascii[i] % 16])
      hi == swizzle(16, N, lut(HI_LUT), [i \in Lanes(N) |-> ascii[i] \div 16])
  IN  \A i \in Lanes(N) : BitAnd(lo[i], hi[i]) = 0

\* the repacking as it would be without the rotate of the high halves
DecodeRepack_NoRotate(N, sextets) ==
  LET shifted == [i \in Lanes(N) |-> sextets[i] * (2 ^ Shifts[(i % 4) + 1])]
      lo == [i \in Lanes(N) |-> shifted[i] % 256]
      hi == [i \in Lanes(N) |-> (shifted[i] \div 256) % 256]
      chunks == [i \in Lanes(N) |-> BitOr(lo[i], hi[i])]
  IN  static_swizzle(N, chunks, CompactIndex(N))

\* the u16 shift, the split in halves, the rotate, the or and the compaction
DecodeRepack(N, sextets) ==
  LET shifted == [i \in Lanes(N) |-> sextets[i] * (2 ^ Shifts[(i % 4) + 1])]
      lo == [i \in Lanes(N) |-> shifted[i] % 256]
      hi == [i \in Lanes(N) |-> (shifted[i] \div 256) % 256]
      chunks == [i \in Lanes(N) |-> BitOr(lo[i], hi[(i + 1) % N])]
  IN  static_swizzle(N, chunks, CompactIndex(N))

simd_decode(N, ascii) ==
  [output |-> DecodeRepack(N, DecodeSextets(N, ascii)),
   valid  |-> DecodeValid(N, ascii)]

\* ------------------------------------------------------- simd::encode

EncodeMask == <<252, 240, 192, 0>>

EncodeOffsets == <<191, 185, 185, 4, 4, 19, 16, 255>>

EncodeSextets(N, data) ==
  LET spread == static_swizzle(N, data, ExpandIndex(N))
      mask == Tile(N, EncodeMask)
      lo == [i \in Lanes(N) |-> BitAnd(spread[i], mask[i])]
      hisrc == [i \in Lanes(N) |-> BitAnd(spread[i], BitNot8(mask[i]))]
      hi == [i \in Lanes(N) |-> hisrc[(i + N - 1) % N]]
      shifted == [i \in Lanes(N) |-> BitOr(lo[i], hi[i] * 256)]
  IN  [i \in Lanes(N) |-> (shifted[i] \div (2 ^ Shifts[(i % 4) + 1])) % 256]

\* the hash as the comment above it describes it: 0x1a subtracted, not 0x0a
EncodeHashes_Sub1a(N, sextets) ==
  [i \in Lanes(N) |->
     LET s == sextets[i]
     IN  WrapAdd(WrapAdd(SatSub(s, 26), IF s >= 52 THEN 15 ELSE 0),
                 IF s >= 62 THEN 28 ELSE 0) \div 16]

EncodeHashes(N, sextets) ==
  [i \in Lanes(N) |->
     LET s == sextets[i]
     IN  WrapAdd(WrapAdd(SatSub(s, 10), IF s >= 52 THEN 15 ELSE 0),
                 IF s >= 62 THEN 28 ELSE 0) \div 16]

simd_encode(N, data) ==
  LET sextets == EncodeSextets(N, data)
      offsets == swizzle_dyn(N, Tile(N, EncodeOffsets), EncodeHashes(N, sextets))
  IN  [i \in Lanes(N) |-> WrapSub(sextets[i], offsets[i])]

\* -------------------------------------------------- length arithmetic

\* decoded_len as it would be without the "- mod4 / 2" correction
decoded_len_NoHalf(input) ==
  LET mod4 == input % 4
  IN  (input \div 4) * 3 + mod4

decoded_len(input) ==
  LET mod4 == input % 4
  IN  (input \div 4) * 3 + (mod4 - (mod4 \div 2))

\* encoded_len as it would be if it counted the pad characters
encoded_len_Padded(input) == ((input + 2) \div 3) * 4

encoded_len(input) ==
  LET mod3 == input % 3
  IN  (input \div 3) * 4 + (mod3 + ((mod3 + 1) \div 2))

\* ------------------------------------------------- read_slice_padded

\* [Z; w] as a w-byte scalar
SplatWord(Z, w) == [j \in 1 .. w |-> Z]

\* ptr.add(off).cast::<uK>().read_unaligned() as uW : a k-byte load at offset
\* off of the slice, zero-extended to w bytes.  A byte outside the slice
\* reads as 0 here and is reported by LoadInBounds.
Load(slice, off, k, w) ==
  [j \in 1 .. w |-> IF j <= k /\ off + j <= Len(slice) THEN slice[off + j] ELSE 0]

LoadInBounds(slice, off, k) == 0 <= off /\ off + k <= Len(slice)

\* the shift as it would be if it moved the word one byte too few
ShlBytes_OneShort(word, s) ==
  [j \in 1 .. Len(word) |->
     IF s = 0 THEN word[j] ELSE IF j > s - 1 THEN word[j - (s - 1)] ELSE 0]

\* word << (s * 8), truncated to the width of the word
ShlBytes(word, s) ==
  [j \in 1 .. Len(word) |-> IF j > s THEN word[j - s] ELSE 0]

OrWord(a, b) == [j \in 1 .. Len(a) |-> BitOr(a[j], b[j])]

\* write_at.cast::<uW>().write_unaligned(word) into the N-lane array
StoreWord(buf, at, word) ==
  [i \in DOMAIN buf |->
     IF at <= i /\ i < at + Len(word) THEN word[i - at + 1] ELSE buf[i]]

\* the loop over the 16-byte blocks, from block i on
RECURSIVE CopyBlocks(_, _, _, _)
CopyBlocks(buf, slice, i, n) ==
  IF i >= n THEN buf
  ELSE CopyBlocks(StoreWord(buf, 16 * i, Load(slice, 16 * i, 16, 16)),
                  slice, i + 1, n)

\* the loads read_slice_padded performs, as <<offset, size>> pairs
PaddedLoads(slice) ==
  LET nblocks == IF Len(slice) >= 16 THEN Len(slice) \div 16 ELSE 0
      at == 16 * nblocks
      len == Len(slice) % 16
  IN  {<<16 * i, 16>> : i \in 0 .. (nblocks - 1)}
      \cup (IF len >= 8 THEN {<<at, 8>>, <<at + len - 8, 8>>}
            ELSE IF len >= 4 THEN {<<at, 4>>, <<at + len - 4, 4>>}
            ELSE IF len >= 1 THEN {<<at, 1>>, <<at + (len \div 2), 1>>, <<at + len - 1, 1>>}
            ELSE {})

\* the stores read_slice_padded performs into buf, as <<offset, size>> pairs
PaddedStores(slice) ==
  LET nblocks == IF Len(slice) >= 16 THEN Len(slice) \div 16 ELSE 0
      at == 16 * nblocks
      len == Len(slice) % 16
  IN  {<<16 * i, 16>> : i \in 0 .. (nblocks - 1)}
      \cup (IF len >= 8 THEN {<<at, 16>>}
            ELSE IF len >= 4 THEN {<<at, 8>>}
            ELSE IF len >= 1 THEN {<<at, 4>>}
            ELSE {})

read_slice_padded(N, Z, slice) ==
  LET nblocks == IF Len(slice) >= 16 THEN Len(slice) \div 16 ELSE 0
      buf == CopyBlocks([i \in Lanes(N) |-> Z], slice, 0, nblocks)
      write_at == 16 * nblocks
      len == Len(slice) % 16
  IN  IF len >= 8 THEN
        LET lo == Load(slice, write_at, 8, 16)
            hi == Load(slice, write_at + len - 8, 8, 16)
            data == OrWord(lo, ShlBytes(hi, len - 8))
            z == ShlBytes(SplatWord(Z, 16), len)
        IN  StoreWord(buf, write_at, OrWord(data, z))
      ELSE IF len >= 4 THEN
        LET lo == Load(slice, write_at, 4, 8)
            hi == Load(slice, write_at + len - 4, 4, 8)
            data == OrWord(lo, ShlBytes(hi, len - 4))
            z == ShlBytes(SplatWord(Z, 8), len)
        IN  StoreWord(buf, write_at, OrWord(data, z))
      ELSE IF len >= 1 THEN
        LET lo == Load(slice, write_at, 1, 4)
            mid == Load(slice, write_at + (len \div 2), 1, 4)
            hi == Load(slice, write_at + len - 1, 1, 4)
            data == OrWord(OrWord(lo, ShlBytes(mid, len \div 2)),
                           ShlBytes(hi, len - 1))
            z == ShlBytes(SplatWord(Z, 4), len)
        IN  StoreWord(buf, write_at, OrWord(data, z))
      ELSE buf

\* the gather stays inside the slice and inside the N-lane array
PaddedInBounds(N, slice) ==
  /\ \A l \in PaddedLoads(slice) : LoadInBounds(slice, l[1], l[2])
  /\ \A s \in PaddedStores(slice) : s[1] + s[2] <= N

\* ------------------------------------------------------------- bounds

\* the longest input of a call (2W-1 for the widest W)
MaxLen == 63

\* the longest input whose bytes range over all 256 values
ShortLen == 3

\* the longest prior content of the output buffer
MaxPrior == 1

\* ------------------------------------------------------ program constants

Widths == {16, 32}

\* the width of a build without avx2, and the width encode_to always uses
LowWidth == 16

PadByte == 61

FillA == 65

FillZero == 0

\* a byte of spare capacity that no store has written yet
Uninit == -1

\* ------------------------------------------------------------- inputs

Alphabet ==
  <<65, 66, 67, 68, 69, 70, 71, 72, 73, 74, 75, 76, 77,
    78, 79, 80, 81, 82, 83, 84, 85, 86, 87, 88, 89, 90,
    97, 98, 99, 100, 101, 102, 103, 104, 105, 106, 107, 108, 109,
    110, 111, 112, 113, 114, 115, 116, 117, 118, 119, 120, 121, 122,
    48, 49, 50, 51, 52, 53, 54, 55, 56, 57, 43, 47>>

AlphabetSet == {Alphabet[i] : i \in 1 .. 64}

\* binary test data: n bytes a, a+d, a+2d, ... (mod 256); d = 0 and a = 255
\* are the all-ones buffers of the crate's tests
EncData(n, a, d) == [i \in 1 .. n |-> (a + (i - 1) * d) % 256]

EncSeeds == {<<255, 0>>, <<0, 1>>, <<37, 67>>}

EncInputs ==
  {EncData(n, s[1], s[2]) : n \in 0 .. MaxLen, s \in EncSeeds}
  \cup {EncData(ShortLen, a, 1) : a \in 0 .. 255}

\* the buffers encoded onto a buffer that already holds something
AllOnes == {EncData(n, 255, 0) : n \in 0 .. MaxLen}

\* base64 test text: n alphabet characters followed by k pad characters
DecText(n, a, d, k) ==
  [i \in 1 .. (n + k) |->
     IF i <= n THEN Alphabet[((a + (i - 1) * d) % 64) + 1] ELSE PadByte]

DecSeeds == {<<0, 1>>, <<63, 0>>}

DecTexts ==
  {DecText(n, s[1], s[2], k) : n \in 0 .. MaxLen, s \in DecSeeds, k \in 0 .. 2}

\* the texts whose shape is that of an encoder's output
Shaped ==
  {DecText(n, 0, 1, (4 - (n % 4)) % 4) : n \in {m \in 0 .. MaxLen : m % 4 # 1}}

\* the bytes outside the alphabet tried at every position: 'A' with its high
\* bit set
BadBytes == {193}

\* how far from the end of a text a pad character is tried
TailLen == 3

Replace(s, p, b) == [s EXCEPT ![p] = b]

\* a text, a position in it, and the byte put there
Mutations ==
  UNION {{<<s, p, b>> : p \in 1 .. Len(s), b \in BadBytes} : s \in Shaped}
  \cup UNION {{<<s, p, PadByte>> : p \in {q \in 1 .. Len(s) : q > Len(s) - TailLen}} :
                s \in Shaped}
  \cup {<<DecText(1, 0, 1, 2), 1, b>> : b \in 0 .. 255}

PriorContent(k) == [i \in 1 .. k |-> 200 + i]

\* -------------------------------------------------------------- state

VARIABLES
  fn,       \* the entry point called: "decode" (decode_to) or "encode" (encode_to)
  N,        \* the width the driver is instantiated with
  input,    \* the data argument of the call
  data,     \* decode: data after the pads are stripped; encode: data
  buf,      \* the memory of out, from its base to its capacity
  len,      \* out.len()
  raw_out,  \* the output cursor, as an offset from the base of out
  start,    \* the read cursor, as an offset into data
  end,      \* encode: the offset at which the current loop stops
  failed,   \* decode: the accumulated failure flag
  pc,       \* the position in the driver
  result,   \* "none" while running, then "Ok" or "Err"
  prior,    \* the contents of out when the call was made
  base,     \* the text the input was derived from
  at,       \* the position of base that was replaced (0: none)
  stage,    \* "first", "second" (the other width) or "rt" (decode of an encoding)
  prev,     \* the outcome of the first instantiation
  orig,     \* the buffer whose encoding is being decoded
  calls     \* the kernel invocations of the current call, in order

vars ==
  <<fn, N, input, data, buf, len, raw_out, start, end, failed, pc, result,
    prior, base, at, stage, prev, orig, calls>>

\* the contents of out, as its owner sees them
Out == SubSeq(buf, 1, len)

NoOutcome == [result |-> "none", out |-> <<>>]

\* one iteration of a driver loop: the kernel ran on vec, which was loaded from
\* the n bytes of data at offset off (kind "window": Simd::from_slice, kind
\* "padded": read_slice_padded), and its result was stored at cursor
Invocation(kind, off, n, vec, cursor, flag) ==
  [kind |-> kind, off |-> off, n |-> n, vec |-> vec, cursor |-> cursor,
   failed |-> flag]

\* ------------------------------------------------------------ helpers

Max(a, b) == IF a >= b THEN a ELSE b

Min(a, b) == IF a <= b THEN a ELSE b

\* the match as it would be with its first pattern missing
StripPad_OnePad(d) ==
  LET n == Len(d)
  IN  IF n >= 1 /\ d[n] = PadByte THEN SubSeq(d, 1, n - 1) ELSE d

\* match data { [p @ .., b'=', b'='] | [p @ .., b'='] | p => p }
StripPad(d) ==
  LET n == Len(d)
  IN  IF n >= 2 /\ d[n] = PadByte /\ d[n - 1] = PadByte THEN SubSeq(d, 1, n - 2)
      ELSE IF n >= 1 /\ d[n] = PadByte THEN SubSeq(d, 1, n - 1)
      ELSE d

\* out.reserve(additional) : capacity >= len + additional, contents kept
Reserve(b, l, additional) ==
  [i \in 1 .. Max(Len(b), l + additional) |-> IF i <= Len(b) THEN b[i] ELSE Uninit]

\* Simd::from_slice(chunk)
from_slice(W, chunk) == [i \in Lanes(W) |-> chunk[i + 1]]

\* the store as it would be if it wrote only the meaningful three quarters
StoreVec_ThreeQuarters(b, off, W, v) ==
  [i \in 1 .. Len(b) |->
     IF off < i /\ i <= off + (W \div 4) * 3 THEN v[i - off - 1] ELSE b[i]]

\* raw_out.cast::<Simd<u8, N>>().write_unaligned(v)
StoreVec(b, off, W, v) ==
  [i \in 1 .. Len(b) |-> IF off < i /\ i <= off + W THEN v[i - off - 1] ELSE b[i]]

StoreInBounds(b, off, W) == 0 <= off /\ off + W <= Len(b)

\* out.extend_from_slice(s)
ExtendFromSlice(b, l, s) ==
  [i \in 1 .. Max(Len(b), l + Len(s)) |->
     IF i <= l THEN b[i] ELSE IF i <= l + Len(s) THEN s[i - l] ELSE b[i]]

\* the stopping point as it would be without the case for a short tail
window_end_NoShortTail(W, n) ==
  LET n3q == (W \div 4) * 3
  IN  IF n < W THEN 0 ELSE n - (n % n3q)

\* the offset at which the full-width window loop of encode stops
window_end(W, n) ==
  LET n3q == (W \div 4) * 3
  IN  IF n % n3q >= W - n3q THEN n - (n % n3q)
      ELSE IF n < W THEN 0
      ELSE n - (n % n3q) - n3q

\* the padding encode appends for an output of length l
PadFor(l) ==
  IF l % 4 = 2 THEN <<PadByte, PadByte>>
  ELSE IF l % 4 = 3 THEN <<PadByte>>
  ELSE <<>>

\* ---------------------------------------------------------------- Init

Init ==
  /\ N = LowWidth
  /\ \E k \in 0 .. MaxPrior : prior = PriorContent(k)
  /\ \/ /\ fn = "encode"
        /\ input \in (IF prior = <<>> THEN EncInputs ELSE AllOnes)
        /\ base = input
        /\ at = 0
     \/ /\ fn = "decode"
        /\ input \in DecTexts
        /\ base = input
        /\ at = 0
     \/ /\ fn = "decode"
        /\ \E m \in Mutations :
             /\ base = m[1]
             /\ at = m[2]
             /\ input = Replace(m[1], m[2], m[3])
  /\ data = <<>>
  /\ buf = prior
  /\ len = Len(prior)
  /\ raw_out = 0
  /\ start = 0
  /\ end = 0
  /\ failed = FALSE
  /\ pc = "call"
  /\ result = "none"
  /\ stage = "first"
  /\ prev = NoOutcome
  /\ orig = <<>>
  /\ calls = <<>>

\* ------------------------------------------------------ decode_tunable

\* the start of decode_tunable as it would be if it refused a stripped length
\* that no encoder produces
decode_begin_LengthCheck ==
  /\ pc = "call"
  /\ fn = "decode"
  /\ data' = StripPad(input)
  /\ IF data' = <<>>
       THEN /\ result' = "Ok"
            /\ pc' = "done"
            /\ UNCHANGED <<buf, raw_out>>
       ELSE IF Len(data') % 4 = 1
         THEN /\ result' = "Err"
              /\ pc' = "done"
              /\ UNCHANGED <<buf, raw_out>>
         ELSE /\ buf' = Reserve(buf, len, decoded_len(Len(data')) + N)
              /\ raw_out' = len
              /\ pc' = "d_chunks"
              /\ UNCHANGED result
  /\ start' = 0
  /\ failed' = FALSE
  /\ UNCHANGED <<fn, N, input, len, end, prior, base, at, stage, prev, orig,
                 calls>>

decode_begin ==
  /\ pc = "call"
  /\ fn = "decode"
  /\ data' = StripPad(input)
  /\ IF data' = <<>>
       THEN /\ result' = "Ok"
            /\ pc' = "done"
            /\ UNCHANGED <<buf, raw_out>>
       ELSE /\ buf' = Reserve(buf, len, decoded_len(Len(data')) + N)
            /\ raw_out' = len
            /\ pc' = "d_chunks"
            /\ UNCHANGED result
  /\ start' = 0
  /\ failed' = FALSE
  /\ UNCHANGED <<fn, N, input, len, end, prior, base, at, stage, prev, orig,
                 calls>>

\* the chunk loop as it would be if it returned at the first invalid chunk
decode_chunk_ShortCircuit ==
  /\ pc = "d_chunks"
  /\ start + N <= Len(data)
  /\ LET chunk == SubSeq(data, start + 1, start + N)
         r == simd_decode(N, from_slice(N, chunk))
     IN  /\ failed' = (failed \/ ~r.valid)
         /\ IF StoreInBounds(buf, raw_out, N)
              THEN /\ buf' = StoreVec(buf, raw_out, N, r.output)
                   /\ raw_out' = raw_out + decoded_len(N)
                   /\ calls' = Append(calls,
                        Invocation("window", start, N, from_slice(N, chunk),
                                   raw_out, failed \/ ~r.valid))
                   /\ pc' = (IF r.valid THEN pc ELSE "d_commit")
              ELSE /\ pc' = "ub"
                   /\ UNCHANGED <<buf, raw_out, calls>>
  /\ start' = start + N
  /\ UNCHANGED <<fn, N, input, data, len, end, result, prior, base, at, stage,
                 prev, orig>>

decode_chunk ==
  /\ pc = "d_chunks"
  /\ start + N <= Len(data)
  /\ LET chunk == SubSeq(data, start + 1, start + N)
         r == simd_decode(N, from_slice(N, chunk))
     IN  /\ failed' = (failed \/ ~r.valid)
         /\ IF StoreInBounds(buf, raw_out, N)
              THEN /\ buf' = StoreVec(buf, raw_out, N, r.output)
                   /\ raw_out' = raw_out + decoded_len(N)
                   /\ calls' = Append(calls,
                        Invocation("window", start, N, from_slice(N, chunk),
                                   raw_out, failed \/ ~r.valid))
                   /\ pc' = pc
              ELSE /\ pc' = "ub"
                   /\ UNCHANGED <<buf, raw_out, calls>>
  /\ start' = start + N
  /\ UNCHANGED <<fn, N, input, data, len, end, result, prior, base, at, stage,
                 prev, orig>>

decode_rest ==
  /\ pc = "d_chunks"
  /\ start + N > Len(data)
  /\ LET rest == SubSeq(data, start + 1, Len(data))
     IN  IF rest # <<>>
           THEN LET padded == read_slice_padded(N, FillA, rest)
                    r == simd_decode(N, padded)
                IN  /\ failed' = (failed \/ ~r.valid)
                    /\ IF StoreInBounds(buf, raw_out, N) /\ PaddedInBounds(N, rest)
                         THEN /\ buf' = StoreVec(buf, raw_out, N, r.output)
                              /\ raw_out' = raw_out + decoded_len(Len(rest))
                              /\ calls' = Append(calls,
                                   Invocation("padded", start, Len(rest), padded,
                                              raw_out, failed \/ ~r.valid))
                              /\ pc' = "d_commit"
                         ELSE /\ pc' = "ub"
                              /\ UNCHANGED <<buf, raw_out, calls>>
           ELSE /\ pc' = "d_commit"
                /\ UNCHANGED <<failed, buf, raw_out, calls>>
  /\ start' = Len(data)
  /\ UNCHANGED <<fn, N, input, data, len, end, result, prior, base, at, stage,
                 prev, orig>>

\* the end of decode_tunable as it would be if set_len came before the check
decode_commit_SetLenFirst ==
  /\ pc = "d_commit"
  /\ result' = (IF failed THEN "Err" ELSE "Ok")
  /\ len' = raw_out
  /\ pc' = "done"
  /\ UNCHANGED <<fn, N, input, data, buf, raw_out, start, end, failed, prior,
                 base, at, stage, prev, orig, calls>>

decode_commit ==
  /\ pc = "d_commit"
  /\ IF failed
       THEN /\ result' = "Err"
            /\ UNCHANGED len
       ELSE /\ result' = "Ok"
            /\ len' = raw_out
  /\ pc' = "done"
  /\ UNCHANGED <<fn, N, input, data, buf, raw_out, start, end, failed, prior,
                 base, at, stage, prev, orig, calls>>

\* ------------------------------------------------------ encode_tunable

encode_begin ==
  /\ pc = "call"
  /\ fn = "encode"
  /\ data' = input
  /\ IF input = <<>>
       THEN /\ result' = "Ok"
            /\ pc' = "done"
            /\ UNCHANGED <<buf, raw_out, end>>
       ELSE /\ buf' = Reserve(buf, len, encoded_len(Len(input)) + N)
            /\ raw_out' = len
            /\ end' = window_end(N, Len(input))
            /\ pc' = "e_windows"
            /\ UNCHANGED result
  /\ start' = 0
  /\ UNCHANGED <<fn, N, input, len, failed, prior, base, at, stage, prev, orig,
                 calls>>

encode_window ==
  /\ pc = "e_windows"
  /\ start # end
  /\ IF LoadInBounds(data, start, N) /\ StoreInBounds(buf, raw_out, N)
       THEN LET chunk == SubSeq(data, start + 1, start + N)
                encoded == simd_encode(N, from_slice(N, chunk))
            IN  /\ start' = start + (N \div 4) * 3
                /\ buf' = StoreVec(buf, raw_out, N, encoded)
                /\ raw_out' = raw_out + N
                /\ calls' = Append(calls,
                     Invocation("window", start, N, from_slice(N, chunk),
                                raw_out, FALSE))
                /\ pc' = pc
       ELSE /\ pc' = "ub"
            /\ UNCHANGED <<start, buf, raw_out, calls>>
  /\ UNCHANGED <<fn, N, input, data, len, end, failed, result, prior, base, at,
                 stage, prev, orig>>

encode_windows_done ==
  /\ pc = "e_windows"
  /\ start = end
  /\ end' = Len(data)
  /\ pc' = "e_rest"
  /\ UNCHANGED <<fn, N, input, data, buf, len, raw_out, start, failed, result,
                 prior, base, at, stage, prev, orig, calls>>

\* the remainder loop as it would be if it gathered all that is left at once
encode_rest_Uncapped ==
  /\ pc = "e_rest"
  /\ start < end
  /\ LET rest == end - start
         chunk == SubSeq(data, start + 1, start + rest)
         padded == read_slice_padded(N, FillZero, chunk)
         encoded == simd_encode(N, padded)
     IN  IF StoreInBounds(buf, raw_out, N) /\ PaddedInBounds(N, chunk)
           THEN /\ start' = start + Len(chunk)
                /\ buf' = StoreVec(buf, raw_out, N, encoded)
                /\ raw_out' = raw_out + encoded_len(Len(chunk))
                /\ calls' = Append(calls,
                     Invocation("padded", start, Len(chunk), padded, raw_out,
                                FALSE))
                /\ pc' = pc
           ELSE /\ pc' = "ub"
                /\ UNCHANGED <<start, buf, raw_out, calls>>
  /\ UNCHANGED <<fn, N, input, data, len, end, failed, result, prior, base, at,
                 stage, prev, orig>>

encode_rest ==
  /\ pc = "e_rest"
  /\ start < end
  /\ LET rest == end - start
         chunk == SubSeq(data, start + 1, start + Min(rest, (N \div 4) * 3))
         padded == read_slice_padded(N, FillZero, chunk)
         encoded == simd_encode(N, padded)
     IN  IF StoreInBounds(buf, raw_out, N) /\ PaddedInBounds(N, chunk)
           THEN /\ start' = start + Len(chunk)
                /\ buf' = StoreVec(buf, raw_out, N, encoded)
                /\ raw_out' = raw_out + encoded_len(Len(chunk))
                /\ calls' = Append(calls,
                     Invocation("padded", start, Len(chunk), padded, raw_out,
                                FALSE))
                /\ pc' = pc
           ELSE /\ pc' = "ub"
                /\ UNCHANGED <<start, buf, raw_out, calls>>
  /\ UNCHANGED <<fn, N, input, data, len, end, failed, result, prior, base, at,
                 stage, prev, orig>>

encode_finish ==
  /\ pc = "e_rest"
  /\ ~(start < end)
  /\ buf' = ExtendFromSlice(buf, raw_out, PadFor(raw_out))
  /\ len' = raw_out + Len(PadFor(raw_out))
  /\ result' = "Ok"
  /\ pc' = "done"
  /\ UNCHANGED <<fn, N, input, data, raw_out, start, end, failed, prior, base,
                 at, stage, prev, orig, calls>>

\* ----------------------------------------------------------- callers

\* the same call through the driver's other instantiation
other_width ==
  /\ pc = "done"
  /\ stage = "first"
  /\ N' \in Widths \ {N}
  /\ prev' = [result |-> result, out |-> Out]
  /\ stage' = "second"
  /\ buf' = prior
  /\ len' = Len(prior)
  /\ data' = <<>>
  /\ raw_out' = 0
  /\ start' = 0
  /\ end' = 0
  /\ failed' = FALSE
  /\ pc' = "call"
  /\ result' = "none"
  /\ calls' = <<>>
  /\ UNCHANGED <<fn, input, prior, base, at, orig>>

\* decode(encode(x)) : the text encode returned, given to decode
round_trip ==
  /\ pc = "done"
  /\ stage = "first"
  /\ fn = "encode"
  /\ prior = <<>>
  /\ fn' = "decode"
  /\ N' \in Widths
  /\ orig' = input
  /\ input' = Out
  /\ base' = Out
  /\ stage' = "rt"
  /\ buf' = <<>>
  /\ len' = 0
  /\ data' = <<>>
  /\ raw_out' = 0
  /\ start' = 0
  /\ end' = 0
  /\ failed' = FALSE
  /\ pc' = "call"
  /\ result' = "none"
  /\ calls' = <<>>
  /\ UNCHANGED <<prior, at, prev>>

Next ==
  \/ decode_begin
  \/ decode_chunk
  \/ decode_rest
  \/ decode_commit
  \/ encode_begin
  \/ encode_window
  \/ encode_windows_done
  \/ encode_rest
  \/ encode_finish
  \/ other_width
  \/ round_trip

Spec == Init /\ [][Next]_vars

\* ------------------------------------------------- RFC 4648 reference

\* the byte at offset i of x, 0 past its end
ByteAt(x, i) == IF i + 1 <= Len(x) THEN x[i + 1] ELSE 0

\* the k-th sextet (k = 0..3) of the g-th group of three bytes of x
RefSextet(x, g, k) ==
  LET b0 == ByteAt(x, 3 * g)
      b1 == ByteAt(x, 3 * g + 1)
      b2 == ByteAt(x, 3 * g + 2)
  IN  IF k = 0 THEN b0 \div 4
      ELSE IF k = 1 THEN (b0 % 4) * 16 + (b1 \div 16)
      ELSE IF k = 2 THEN (b1 % 16) * 4 + (b2 \div 64)
      ELSE b2 % 64

\* the padded base64 text of x
RefEncode(x) ==
  [j \in 1 .. 4 * ((Len(x) + 2) \div 3) |->
     LET g == (j - 1) \div 4
         k == (j - 1) % 4
     IN  IF (k = 2 /\ 3 * g + 1 >= Len(x)) \/ (k = 3 /\ 3 * g + 2 >= Len(x))
           THEN PadByte
           ELSE Alphabet[RefSextet(x, g, k) + 1]]

SextetOf(c) == CHOOSE v \in 0 .. 63 : Alphabet[v + 1] = c

\* the sextet at offset i of the text t, 0 past its end
SextetAt(t, i) == IF i + 1 <= Len(t) THEN SextetOf(t[i + 1]) ELSE 0

\* the bytes that a text t of alphabet characters (pads removed) stands for
RefDecode(t) ==
  [j \in 1 .. ((6 * Len(t)) \div 8) |->
     LET g == (j - 1) \div 3
         k == (j - 1) % 3
         s0 == SextetAt(t, 4 * g)
         s1 == SextetAt(t, 4 * g + 1)
         s2 == SextetAt(t, 4 * g + 2)
         s3 == SextetAt(t, 4 * g + 3)
     IN  IF k = 0 THEN s0 * 4 + (s1 \div 16)
         ELSE IF k = 1 THEN (s1 % 16) * 16 + (s2 \div 4)
         ELSE (s2 % 4) * 64 + s3]

\* an ASCII letter, an ASCII digit, '+' or '/'
InAlphabet(b) ==
  \/ 65 <= b /\ b <= 90
  \/ 97 <= b /\ b <= 122
  \/ 48 <= b /\ b <= 57
  \/ b = 43
  \/ b = 47

\* the number of trailing '=' of s, at most two
TrailingPads(s) ==
  IF Len(s) >= 2 /\ s[Len(s)] = PadByte /\ s[Len(s) - 1] = PadByte THEN 2
  ELSE IF Len(s) >= 1 /\ s[Len(s)] = PadByte THEN 1
  ELSE 0

\* s without its trailing '='
Unpadded(s) == SubSeq(s, 1, Len(s) - TrailingPads(s))

\* a text an encoder can return: a multiple of four long, alphabet characters
\* followed by at most two '='
ValidEncoded(s) ==
  /\ Len(s) % 4 = 0
  /\ \A i \in 1 .. Len(Unpadded(s)) : InAlphabet(s[i])

Returned == pc = "done"

\* ------------------------------------------------------------- claims

\* C1: round trip.  Whenever decode returns on the text encode returned for
\* x, it returns success with a buffer equal to x, and the call never leaves
\* its buffers.
C1_RoundTrip ==
  /\ stage = "rt" => pc # "ub"
  /\ (stage = "rt" /\ Returned) => (result = "Ok" /\ Out = orig)

C1_Witness ==
  /\ stage = "rt"
  /\ Returned
  /\ N = 32
  /\ Len(orig) = MaxLen
  /\ result = "Ok"
  /\ Out = orig

\* C2: encode(x) is the RFC 4648 padded base64 text of x, under both
\* instantiations of the driver.
C2_EncodeIsRfc4648 ==
  /\ fn = "encode" => pc # "ub"
  /\ (fn = "encode" /\ Returned /\ prior = <<>>) => Out = RefEncode(input)

C2_Witness ==
  /\ fn = "encode"
  /\ Returned
  /\ input = <<255>>
  /\ Out = <<47, 119, 61, 61>>

\* C3: decode returns the error iff some byte of the input, once up to two
\* trailing '=' are removed, is outside the alphabet; in particular
\* decode([b, '=', '=']) succeeds iff b is a letter, a digit, '+' or '/'.
C3_AlphabetRejection ==
  (fn = "decode" /\ Returned) =>
    /\ result = "Err" <=>
         \E i \in 1 .. Len(Unpadded(input)) : ~InAlphabet(input[i])
    /\ \A b \in 0 .. 255 :
         input = <<b, PadByte, PadByte>> => (result = "Ok" <=> InAlphabet(b))

C3_Witness ==
  /\ fn = "decode"
  /\ Returned
  /\ input = <<255, PadByte, PadByte>>
  /\ result = "Err"

\* C4 as stated: replacing any one byte of a valid encoded text by a byte
\* outside the alphabet ('=' included) makes decode fail.
C4_AnyReplacementFails ==
  (fn = "decode" /\ Returned /\ at > 0 /\ ValidEncoded(base)
     /\ input # base /\ ~InAlphabet(input[at]))
    => result = "Err"

\* C4 as amended: decode of the modified text fails iff the replaced position
\* survives the stripping of up to two trailing '='; a '=' put in the last
\* position, or in the second to last before a final '=', is stripped and
\* decode succeeds.
C4_ReplacementFailsUnlessStripped ==
  (fn = "decode" /\ Returned /\ at > 0 /\ ValidEncoded(base)
     /\ ~InAlphabet(input[at]))
    => (result = "Err" <=> at <= Len(input) - TrailingPads(input))

C4_Witness ==
  /\ fn = "decode"
  /\ Returned
  /\ at > 0
  /\ ValidEncoded(base)
  /\ input # base
  /\ input[at] = PadByte
  /\ at = Len(input)
  /\ N = 32
  /\ Len(input) > 32
  /\ result = "Ok"

\* decoded_len as the specification states it
ClaimedDecodedLen(n) ==
  (n \div 4) * 3
    + (IF n % 4 = 0 THEN 0 ELSE IF n % 4 = 3 THEN 2 ELSE 1)

\* C5: decode is all-or-nothing.  When it returns the error, out has the
\* length and the contents it had before the call; when it succeeds, out is
\* its prior contents followed by the decoded bytes.
C5_AllOrNothing ==
  (fn = "decode" /\ Returned) =>
    /\ result = "Err" => (len = Len(prior) /\ Out = prior)
    /\ result = "Ok" =>
         /\ len = Len(prior) + ClaimedDecodedLen(Len(Unpadded(input)))
         /\ SubSeq(Out, 1, Len(prior)) = prior
         /\ Len(Unpadded(input)) % 4 # 1 =>
              Out = prior \o RefDecode(Unpadded(input))

C5_Witness ==
  /\ fn = "decode"
  /\ Returned
  /\ result = "Err"
  /\ prior # <<>>
  /\ at > N
  /\ raw_out > Len(prior) + N
  /\ buf[Len(prior) + 1] # Uninit
  /\ Out = prior

\* C6 as stated: after encode_to, out is its prior contents followed by
\* exactly encode(data), whatever the prior length.
C6_EncodeAppends ==
  (fn = "encode" /\ Returned) => Out = prior \o RefEncode(input)

\* encoded_len as the specification states it
ClaimedEncodedLen(n) ==
  (n \div 3) * 4 + (IF n % 3 = 0 THEN 0 ELSE IF n % 3 = 1 THEN 2 ELSE 3)

\* C7 as stated: encode(x).length = encoded_len(x.length), with
\* encoded_len(n) = n/3*4 + r, r = 0, 2, 3 for n mod 3 = 0, 1, 2.
C7_LengthIsEncodedLen ==
  (fn = "encode" /\ Returned /\ prior = <<>>) =>
    Len(Out) = ClaimedEncodedLen(Len(input))

\* C7 as amended: encoded_len(n) is the length of the text before padding
\* (the offset of the cursor when the loops end); encode(x).length is
\* encoded_len(n) plus 0, 2, 1 pad characters for n mod 3 = 0, 1, 2.
C7_LengthIsEncodedLenPlusPad ==
  (fn = "encode" /\ Returned /\ prior = <<>>) =>
    /\ raw_out = ClaimedEncodedLen(Len(input))
    /\ Len(Out) = ClaimedEncodedLen(Len(input))
                    + (IF Len(input) % 3 = 0 THEN 0
                       ELSE IF Len(input) % 3 = 1 THEN 2 ELSE 1)

C7_Witness ==
  /\ fn = "encode"
  /\ Returned
  /\ prior = <<>>
  /\ Len(input) > 32
  /\ Len(input) % 3 = 1
  /\ Len(Out) = raw_out + 2

\* C8 as stated: for a valid encoded text s of length L, decode(s) succeeds
\* with decoded_len(L) bytes, decoded_len(n) = n/4*3 + r, r = 0, 1, 1, 2 for
\* n mod 4 = 0, 1, 2, 3.
C8_LengthIsDecodedLenOfText ==
  (fn = "decode" /\ Returned /\ ValidEncoded(input)) =>
    /\ result = "Ok"
    /\ Len(Out) - Len(prior) = ClaimedDecodedLen(Len(input))

\* C8 as amended: decode(s) succeeds with decoded_len(L - k) bytes, k the
\* number (0, 1 or 2) of trailing '=' of s.
C8_LengthIsDecodedLenOfUnpadded ==
  (fn = "decode" /\ Returned /\ ValidEncoded(input)) =>
    /\ result = "Ok"
    /\ Len(Out) - Len(prior)
         = ClaimedDecodedLen(Len(input) - TrailingPads(input))

C8_Witness ==
  /\ fn = "decode"
  /\ Returned
  /\ ValidEncoded(input)
  /\ TrailingPads(input) = 2
  /\ Len(input) > 32
  /\ N = 32
  /\ result = "Ok"

\* C9: width independence.  The driver instantiated with W = 32 returns what
\* the driver instantiated with W = 16 returned on the same call: the same
\* outcome and the same contents of out.
C9_WidthIndependent ==
  /\ pc # "ub"
  /\ (stage = "second" /\ Returned) =>
       (result = prev.result /\ Out = prev.out)

C9_Witness ==
  /\ stage = "second"
  /\ Returned
  /\ N = 32
  /\ fn = "decode"
  /\ at > 16
  /\ result = "Err"
  /\ prev.result = "Err"

\* the stopping point of the window loop as the specification states it
ClaimedStop(W, n) ==
  LET q == (3 * W) \div 4
  IN  IF n % q >= W - q THEN n - (n % q)
      ELSE IF n < W THEN 0
      ELSE n - (n % q) - q

\* C10: every iteration of the full-width window loop of encode reads W
\* bytes inside the input, and the loop stops where the claim says.
C10_WindowReadsInside ==
  pc = "e_windows" =>
    /\ end = ClaimedStop(N, Len(data))
    /\ start <= end
    /\ start # end => start + N <= Len(data)

C10_Witness ==
  /\ pc = "e_windows"
  /\ N = 32
  /\ start > 0
  /\ start # end
  /\ start + N = Len(data)

\* the amount the claim says the driver reserves: the length of the result
\* plus one vector of slop
ClaimedReserve ==
  IF fn = "decode" THEN ClaimedDecodedLen(Len(Unpadded(input))) + N
  ELSE ClaimedEncodedLen(Len(input)) + N

\* C11: in decode and in encode every vectorized store writes exactly W bytes
\* at the output cursor, inside the reserved region: with p the length of out
\* before the call and R the reserved amount, p <= cursor and
\* cursor + W <= p + R at every store, no store leaves the memory of out, and
\* the final cursor is p + R - W.  Until encode appends its padding, the bytes
\* written are those up to the end of the last store.
C11_StoresInsideReserve ==
  LET p == Len(prior)
      R == ClaimedReserve
  IN  /\ pc # "ub"
      /\ \A i \in 1 .. Len(calls) :
           /\ p <= calls[i].cursor
           /\ calls[i].cursor + N <= p + R
      /\ calls # <<>> => Len(buf) = p + R
      /\ (calls # <<>> /\ (fn = "decode" \/ ~Returned)) =>
           LET last == calls[Len(calls)].cursor
           IN  \A j \in p + 1 .. p + R : (buf[j] = Uninit) <=> (j > last + N)
      /\ (Returned /\ data # <<>>) => raw_out = p + R - N

C11_Witness ==
  /\ Returned
  /\ N = 32
  /\ Len(prior) > 0
  /\ Len(calls) >= 2
  /\ calls[Len(calls)].kind = "padded"
  /\ calls[Len(calls)].cursor + N = Len(prior) + ClaimedReserve - 1

\* the vector the claim says the Padded Gather returns
ClaimedPadded(W, Z, span) ==
  [i \in Lanes(W) |-> IF i < Len(span) THEN span[i + 1] ELSE Z]

\* the fill bytes tried on every span, and the spans on which every fill byte
\* is tried: the texts A, B, C, ... of every length
FillBytes == {0, 61, 65, 85, 170, 255}

EveryFillSpan ==
  /\ fn = "decode"
  /\ prior = <<>>
  /\ stage # "rt"
  /\ input = DecText(Len(input), 0, 1, 0)

\* C12: for W = 16 and W = 32, every span of length 1 <= L < W and every fill
\* byte, read_slice_padded returns the span in lanes 0..L and the fill in lanes
\* L..W, each of its loads reads only bytes of the span, and each of its
\* writes stays inside the W-byte result.
C12_PaddedGather ==
  (calls # <<>> /\ calls[Len(calls)].kind = "padded") =>
    LET e == calls[Len(calls)]
        span == SubSeq(data, e.off + 1, e.off + e.n)
        L == Len(span)
    IN  /\ 1 <= L /\ L < N
        /\ e.vec = ClaimedPadded(N, IF fn = "decode" THEN FillA ELSE FillZero, span)
        /\ \A Z \in (IF EveryFillSpan THEN 0 .. 255 ELSE FillBytes) :
             read_slice_padded(N, Z, span) = ClaimedPadded(N, Z, span)
        /\ \A l \in PaddedLoads(span) : 0 <= l[1] /\ l[1] + l[2] <= L
        /\ \A w \in PaddedStores(span) : 0 <= w[1] /\ w[1] + w[2] <= N

C12_Witness ==
  /\ calls # <<>>
  /\ calls[Len(calls)].kind = "padded"
  /\ calls[Len(calls)].n = 31
  /\ N = 32
  /\ EveryFillSpan
  /\ calls[Len(calls)].vec[30] = data[Len(data)]
  /\ calls[Len(calls)].vec[31] = FillA

\* the number of windows of an input of n bytes: ceil(n / W)
ClaimedWindows(W, n) == (n + W - 1) \div W

\* C13: decode never short-circuits.  For an input of stripped length n > 0
\* the kernel runs on the windows at offsets 0, W, 2W, ... in order, each W
\* bytes long but the last; the failure flag is the one the last window left
\* and never goes back from set to clear; once the loop is over all
\* ceil(n / W) windows have been processed, and the error is returned only
\* then.
C13_NoShortCircuit ==
  fn = "decode" =>
    LET n == Len(Unpadded(input))
    IN  /\ \A i \in 1 .. Len(calls) :
             /\ calls[i].off = (i - 1) * N
             /\ calls[i].n = Min(N, n - calls[i].off)
             /\ calls[i].n >= 1
             /\ \A j \in i .. Len(calls) : calls[i].failed => calls[j].failed
        /\ calls # <<>> => failed = calls[Len(calls)].failed
        /\ (pc \in {"d_commit", "done"} /\ n > 0) =>
             Len(calls) = ClaimedWindows(N, n)
        /\ result = "Err" =>
             /\ pc = "done"
             /\ n > 0
             /\ Len(calls) = ClaimedWindows(N, n)
        /\ (Returned /\ failed) => result = "Err"

C13_Witness ==
  /\ fn = "decode"
  /\ Returned
  /\ result = "Err"
  /\ N = 16
  /\ Len(calls) = 4
  /\ calls[1].failed
  /\ calls[4].kind = "padded"
  /\ at <= 16

\* the invocations of the current call that went through the Padded Gather
PaddedCalls == {i \in 1 .. Len(calls) : calls[i].kind = "padded"}

\* the bytes of the input left when the full-width window loop has finished:
\* each window consumed q = 3/4 W of them
FinalRemainder ==
  Len(data) - ((3 * N) \div 4) * (Len(calls) - Cardinality(PaddedCalls))

\* the cursor after invocation i: the cursor of the next one, or the final one
CursorAfter(i) == IF i < Len(calls) THEN calls[i + 1].cursor ELSE raw_out

\* C14 as stated: when the window loop of encode has finished the bytes not
\* yet consumed number at most q = 3/4 W, and they are handled by one
\* zero-filled Padded Gather and one kernel encode that advances the cursor by
\* encoded_len(remainder_len).
C14_OneGatherForRemainder ==
  (fn = "encode" /\ pc \in {"e_rest", "done"} /\ data # <<>>) =>
    /\ FinalRemainder <= (3 * N) \div 4
    /\ Cardinality(PaddedCalls) <= 1
    /\ \A i \in PaddedCalls :
         /\ calls[i].n = FinalRemainder
         /\ CursorAfter(i) = calls[i].cursor + ClaimedEncodedLen(FinalRemainder)
    /\ Returned => Cardinality(PaddedCalls) = 1

\* C14, amended: when the window loop of encode has finished the bytes not yet
\* consumed number at least 1 and at most W - 1, and more than q = 3/4 W
\* exactly when input_len >= q and 0 < input_len mod q < W - q; they are
\* handled by zero-filled Padded Gathers of at most q bytes, one if the
\* remainder is at most q and otherwise two, of q bytes and of the rest, each
\* followed by one kernel encode that advances the cursor by encoded_len of
\* the bytes gathered, which adds up to encoded_len(remainder_len).
C14_OneOrTwoGathersForRemainder ==
  (fn = "encode" /\ pc \in {"e_rest", "done"} /\ data # <<>>) =>
    LET q == (3 * N) \div 4
        rem == FinalRemainder
        first == Len(calls) - Cardinality(PaddedCalls) + 1
    IN  /\ 1 <= rem /\ rem <= N - 1
        /\ rem > q <=> (Len(data) >= q /\ 0 < Len(data) % q /\ Len(data) % q < N - q)
        /\ PaddedCalls = first .. Len(calls)
        /\ \A i \in PaddedCalls :
             /\ calls[i].vec = ClaimedPadded(N, 0, SubSeq(data, calls[i].off + 1,
                                                          calls[i].off + calls[i].n))
             /\ calls[i].n = Min(q, Len(data) - calls[i].off)
             /\ CursorAfter(i) = calls[i].cursor + ClaimedEncodedLen(calls[i].n)
        /\ Returned =>
             /\ Cardinality(PaddedCalls) = (IF rem <= q THEN 1 ELSE 2)
             /\ calls[first].off = Len(data) - rem
             /\ raw_out = calls[first].cursor + ClaimedEncodedLen(rem)

C14_Witness ==
  /\ fn = "encode"
  /\ Returned
  /\ N = 32
  /\ Len(calls) = 3
  /\ calls[1].kind = "window"
  /\ calls[2].kind = "padded" /\ calls[2].n = 24
  /\ calls[3].kind = "padded" /\ calls[3].n = 1
  /\ FinalRemainder = 25

\* C15: decode makes no structural check of the length.  For an input whose
\* length n after up to two trailing '=' are stripped has n mod 4 = 1 and
\* whose n bytes are all in the alphabet, decode does not fault and does not
\* return the error: it succeeds and appends exactly decoded_len(n) bytes, and
\* decode("A") is the single byte 0x00.
C15_NoLengthCheck ==
  LET text == Unpadded(input)
      n == Len(text)
  IN  (fn = "decode" /\ n % 4 = 1 /\ \A i \in 1 .. n : InAlphabet(text[i])) =>
        /\ pc # "ub"
        /\ result # "Err"
        /\ ~failed
        /\ Returned =>
             /\ result = "Ok"
             /\ Len(Out) = Len(prior) + ClaimedDecodedLen(n)
             /\ SubSeq(Out, 1, Len(prior)) = prior
             /\ text = <<65>> => Out = prior \o <<0>>

C15_Witness ==
  /\ fn = "decode"
  /\ Returned
  /\ input = <<65>>
  /\ prior = <<>>
  /\ result = "Ok"
  /\ Out = <<0>>
  /\ Len(calls) = 1
  /\ calls[1].kind = "padded"

====
